---- MODULE Spec2Model ----
(***************************************************************************)
(* Purchase Order Extractor: src/anthropic_fix.py (HTTP client, PDF        *)
(* rasterizer, request builder, response parser) and src/test.py (the      *)
(* Streamlit script: upload, preview, extraction trigger, rendering).      *)
(*                                                                         *)
(* Text is a sequence of one-character strings, so that substring search,  *)
(* str.split, str.strip and json.loads are computed character by           *)
(* character as Python computes them.                                      *)
(***************************************************************************)
EXTENDS Integers, Sequences, FiniteSets, TLC

VARIABLES
  uploaded_file,    \* st.file_uploader's value: NoFile or the uploaded bytes
  api_key,          \* st.sidebar.text_input's value
  extraction_mode,  \* st.sidebar.radio's value
  screen,           \* the elements the last script run rendered, in order
  uncaught,         \* the exception that ended the last run uncaught, or "none"
  pressed,          \* st.button's value in the last run
  session_state,    \* st.session_state: the stored extracted_data, if any
  temp_files,       \* temporary .pdf files on disk holding the document
  result,           \* the last (extracted_data, error) pair returned
  requests,         \* payloads POSTed during the last run or call
  rendered,         \* how many times pdf_to_images ran in the last run or call
  call,             \* the arguments of the last direct call of a function
  ret               \* what that call returned or raised

vars == <<uploaded_file, api_key, extraction_mode, screen, uncaught, pressed,
          session_state, temp_files, result, requests, rendered, call, ret>>

(***************************************************************************)
(* Bounds of the model.                                                    *)
(***************************************************************************)
\* most pages of a document
MaxPages == 12
\* most pieces a reply text is assembled from
MaxPieces == 4
\* most temporary files a session's runs find on disk
MaxRuns == 5

(***************************************************************************)
(* Python str operations.                                                  *)
(***************************************************************************)
Min(a, b) == IF a <= b THEN a ELSE b

\* the characters of a string literal
Chars(str) == [i \in 1..Len(str) |-> SubSeq(str, i, i)]

\* characters str.strip() removes (those of them the model's texts use)
PyWhitespace == {" ", "\n", "\t", "\r", "\f"}

\* s[i:] starts with sub
StartsAt(s, sub, i) ==
  /\ i + Len(sub) - 1 <= Len(s)
  /\ \A k \in 1..Len(sub) : s[i + k - 1] = sub[k]

\* the value F gives for x: x is computed once, where it is bound
Let(x, F(_)) == F(x)

\* the least index j in i..Len(s) with P(s, j), Len(s)+1 if none (i <= Len(s)+1)
LeastFrom(s, i, P(_, _)) ==
  CHOOSE j \in i..(Len(s) + 1) :
    /\ j = Len(s) + 1 \/ P(s, j)
    /\ \A k \in i..(j - 1) : ~P(s, k)

\* str.find from position i: the least index >= i where sub occurs, 0 if none
FindFrom(s, sub, i) ==
  LET Here(t, j) == StartsAt(t, sub, j)
  IN  IF i > Len(s) THEN 0
      ELSE Let(LeastFrom(s, i, Here), LAMBDA j : IF j > Len(s) THEN 0 ELSE j)

\* sub in s
Contains(s, sub) == FindFrom(s, sub, 1) # 0

\* s.split(sep): the pieces between the non-overlapping occurrences of sep,
\* found left to right
RECURSIVE Split(_, _)
Split(s, sep) ==
  Let(FindFrom(s, sep, 1), LAMBDA i :
    IF i = 0 THEN <<s>>
    ELSE <<SubSeq(s, 1, i - 1)>> \o Split(SubSeq(s, i + Len(sep), Len(s)), sep))

RECURSIVE LStrip(_)
LStrip(s) ==
  IF s # <<>> /\ Head(s) \in PyWhitespace THEN LStrip(Tail(s)) ELSE s

RECURSIVE RStrip(_)
RStrip(s) ==
  IF s # <<>> /\ s[Len(s)] \in PyWhitespace
  THEN RStrip(SubSeq(s, 1, Len(s) - 1)) ELSE s

\* s.strip()
Strip(s) == RStrip(LStrip(s))

(***************************************************************************)
(* Python values that json.loads produces. One record shape for all, with  *)
(* the fields a kind does not use left empty.                              *)
(***************************************************************************)
PyNone == [t |-> "None", n |-> 0, s |-> <<>>, ks |-> <<>>, vs |-> <<>>]
PyBool(b) == [t |-> "bool", n |-> IF b THEN 1 ELSE 0, s |-> <<>>, ks |-> <<>>, vs |-> <<>>]
PyInt(k) == [t |-> "int", n |-> k, s |-> <<>>, ks |-> <<>>, vs |-> <<>>]
PyStr(chars) == [t |-> "str", n |-> 0, s |-> chars, ks |-> <<>>, vs |-> <<>>]
PyList(items) == [t |-> "list", n |-> 0, s |-> <<>>, ks |-> <<>>, vs |-> items]
PyDict(keys, values) == [t |-> "dict", n |-> 0, s |-> <<>>, ks |-> keys, vs |-> values]

\* bool(v)
Truthy(v) ==
  CASE v.t = "None" -> FALSE
    [] v.t = "bool" -> v.n = 1
    [] v.t = "int"  -> v.n # 0
    [] v.t = "str"  -> v.s # <<>>
    [] v.t = "list" -> v.vs # <<>>
    [] v.t = "dict" -> v.ks # <<>>

\* index of key k in dict d, 0 if absent
KeyIndex(d, k) ==
  IF \E i \in 1..Len(d.ks) : d.ks[i] = k
  THEN CHOOSE i \in 1..Len(d.ks) : d.ks[i] = k
  ELSE 0

\* d[k] = v on a dict: a repeated key keeps its place and takes the new value
DictSet(d, k, v) ==
  Let(KeyIndex(d, k), LAMBDA i :
    IF i = 0 THEN PyDict(Append(d.ks, k), Append(d.vs, v))
    ELSE PyDict(d.ks, [d.vs EXCEPT ![i] = v]))

\* d[k] on a dict that has k
DictGet(d, k) == d.vs[KeyIndex(d, k)]

(***************************************************************************)
(* json.loads (and httpx's Response.json, which calls it), as the standard *)
(* library's decoder scans: scan_once, JSONObject, JSONArray, scanstring.  *)
(* A parse returns [ok, v, next, msg]: the value and the index after it,   *)
(* or the decoder's complaint. Number forms with a fraction or exponent,   *)
(* NaN, Infinity and the \b and \u escapes are outside the model: a parse  *)
(* that meets one answers msg = "unmodelled", which no text explored does  *)
(* (ParserInDomain).                                                       *)
(***************************************************************************)
JsonWhitespace == {" ", "\t", "\n", "\r"}
ControlChars == {"\t", "\n", "\r", "\f"}
Digits == {"0", "1", "2", "3", "4", "5", "6", "7", "8", "9"}

DigitVal(c) ==
  CASE c = "0" -> 0 [] c = "1" -> 1 [] c = "2" -> 2 [] c = "3" -> 3
    [] c = "4" -> 4 [] c = "5" -> 5 [] c = "6" -> 6 [] c = "7" -> 7
    [] c = "8" -> 8 [] c = "9" -> 9

\* the character a backslash escape stands for (scanstring's BACKSLASH table)
Unescape(c) ==
  CASE c = "\"" -> "\"" [] c = "\\" -> "\\" [] c = "/" -> "/"
    [] c = "f" -> "\f" [] c = "n" -> "\n" [] c = "r" -> "\r" [] c = "t" -> "\t"

ParseOk(v, next) == [ok |-> TRUE, v |-> v, next |-> next, msg |-> ""]
ParseFail(i, msg) == [ok |-> FALSE, v |-> PyNone, next |-> i, msg |-> msg]

\* WHITESPACE.match(s, i).end()
SkipWs(s, i) ==
  LET Black(t, j) == t[j] \notin JsonWhitespace
  IN  IF i > Len(s) THEN i ELSE LeastFrom(s, i, Black)

\* the length of the run of backslashes that ends just before j and starts
\* no earlier than i
BackslashRun(s, i, j) ==
  CHOOSE r \in 0..(j - i) :
    /\ r = j - i \/ s[j - 1 - r] # "\\"
    /\ \A m \in 1..r : s[j - m] = "\\"

\* in the string that starts at i, the character at j follows the backslash
\* of an escape
Escaped(s, i, j) == BackslashRun(s, i, j) % 2 = 1

\* py_scanstring from the character after the opening quote: the plain
\* characters (STRINGCHUNK) and the escapes up to e, the first of the closing
\* quote, a control character, an escape json does not know, and the end of
\* the text
ScanString(s, i) ==
  LET Stop(t, j) ==
        IF Escaped(t, i, j) THEN t[j] \notin {"\"", "\\", "/", "f", "n", "r", "t"}
        ELSE t[j] \in {"\""} \cup ControlChars
      Plain(j) == Escaped(s, i, j) \/ s[j] # "\\"
  IN  Let(IF i > Len(s) THEN i ELSE LeastFrom(s, i, Stop), LAMBDA e :
        IF e > Len(s) THEN ParseFail(e, "Unterminated string")
        ELSE IF Escaped(s, i, e)
          THEN IF s[e] \in {"b", "u"} THEN ParseFail(e - 1, "unmodelled")
               ELSE ParseFail(e - 1, "Invalid \\escape")
        ELSE IF s[e] # "\"" THEN ParseFail(e, "Invalid control character")
        ELSE Let(SelectSeq([k \in 1..(e - i) |-> i + k - 1], Plain), LAMBDA at :
               ParseOk(PyStr([k \in 1..Len(at) |->
                               IF Escaped(s, i, at[k]) THEN Unescape(s[at[k]]) ELSE s[at[k]]]),
                       e + 1)))

\* the digits [1-9]\d* from i, with the value so far
RECURSIVE ScanDigits(_, _, _)
ScanDigits(s, i, acc) ==
  IF i <= Len(s) /\ s[i] \in Digits
  THEN ScanDigits(s, i + 1, 10 * acc + DigitVal(s[i]))
  ELSE [n |-> acc, next |-> i]

\* NUMBER_RE.match at i, where s[i] is a digit or "-"
ScanNumber(s, i) ==
  Let(IF s[i] = "-" THEN i + 1 ELSE i, LAMBDA j :
    IF j > Len(s) THEN ParseFail(i, "Expecting value")
    ELSE IF StartsAt(s, Chars("Infinity"), j) THEN ParseFail(i, "unmodelled")
    ELSE IF s[j] \notin Digits THEN ParseFail(i, "Expecting value")
    ELSE Let(IF s[j] = "0" THEN [n |-> 0, next |-> j + 1] ELSE ScanDigits(s, j, 0), LAMBDA d :
           IF d.next <= Len(s) /\ s[d.next] \in {".", "e", "E"}
           THEN ParseFail(i, "unmodelled")
           ELSE ParseOk(PyInt(IF s[i] = "-" THEN 0 - d.n ELSE d.n), d.next)))

RECURSIVE ScanOnce(_, _)
RECURSIVE JSONObjectMembers(_, _, _)
RECURSIVE JSONArrayItems(_, _, _)

\* JSONObject from the character after "{"
JSONObject(s, i) ==
  Let(SkipWs(s, i), LAMBDA j :
    IF j > Len(s) THEN ParseFail(j, "Expecting property name enclosed in double quotes")
    ELSE IF s[j] = "}" THEN ParseOk(PyDict(<<>>, <<>>), j + 1)
    ELSE IF s[j] # "\"" THEN ParseFail(j, "Expecting property name enclosed in double quotes")
    ELSE JSONObjectMembers(s, j, PyDict(<<>>, <<>>)))

\* the members of an object from the opening quote of a key at j: the key,
\* the colon at c, the value, then at e the closing brace or a comma and at
\* n the next key
JSONObjectMembers(s, j, d) ==
  Let(ScanString(s, j + 1), LAMBDA k :
    IF ~k.ok THEN k
    ELSE Let(SkipWs(s, k.next), LAMBDA c :
      IF c > Len(s) \/ s[c] # ":" THEN ParseFail(c, "Expecting ':' delimiter")
      ELSE Let(ScanOnce(s, SkipWs(s, c + 1)), LAMBDA v :
        IF ~v.ok THEN v
        ELSE Let(SkipWs(s, v.next), LAMBDA e :
          IF e > Len(s) THEN ParseFail(e, "Expecting ',' delimiter")
          ELSE IF s[e] = "}" THEN ParseOk(DictSet(d, k.v.s, v.v), e + 1)
          ELSE IF s[e] # "," THEN ParseFail(e, "Expecting ',' delimiter")
          ELSE Let(SkipWs(s, e + 1), LAMBDA n :
            IF n > Len(s) \/ s[n] # "\""
            THEN ParseFail(n, "Expecting property name enclosed in double quotes")
            ELSE JSONObjectMembers(s, n, DictSet(d, k.v.s, v.v)))))))

\* JSONArray from the character after "["
JSONArray(s, i) ==
  Let(SkipWs(s, i), LAMBDA j :
    IF j <= Len(s) /\ s[j] = "]" THEN ParseOk(PyList(<<>>), j + 1)
    ELSE JSONArrayItems(s, j, <<>>))

\* the items of an array from the first character of an item at j: the
\* item, then at e the closing bracket or a comma
JSONArrayItems(s, j, acc) ==
  Let(ScanOnce(s, j), LAMBDA v :
    IF ~v.ok THEN v
    ELSE Let(SkipWs(s, v.next), LAMBDA e :
      IF e > Len(s) THEN ParseFail(e, "Expecting ',' delimiter")
      ELSE IF s[e] = "]" THEN ParseOk(PyList(Append(acc, v.v)), e + 1)
      ELSE IF s[e] # "," THEN ParseFail(e, "Expecting ',' delimiter")
      ELSE JSONArrayItems(s, SkipWs(s, e + 1), Append(acc, v.v))))

\* scan_once: the value that starts at i
ScanOnce(s, i) ==
  IF i > Len(s) THEN ParseFail(i, "Expecting value")
  ELSE CASE s[i] = "\"" -> ScanString(s, i + 1)
         [] s[i] = "{" -> JSONObject(s, i + 1)
         [] s[i] = "[" -> JSONArray(s, i + 1)
         [] s[i] = "n" -> IF StartsAt(s, Chars("null"), i)
                          THEN ParseOk(PyNone, i + 4)
                          ELSE ParseFail(i, "Expecting value")
         [] s[i] = "t" -> IF StartsAt(s, Chars("true"), i)
                          THEN ParseOk(PyBool(TRUE), i + 4)
                          ELSE ParseFail(i, "Expecting value")
         [] s[i] = "f" -> IF StartsAt(s, Chars("false"), i)
                          THEN ParseOk(PyBool(FALSE), i + 5)
                          ELSE ParseFail(i, "Expecting value")
         [] s[i] \in Digits \cup {"-"} -> ScanNumber(s, i)
         [] StartsAt(s, Chars("NaN"), i) \/ StartsAt(s, Chars("Infinity"), i) ->
              ParseFail(i, "unmodelled")
         [] OTHER -> ParseFail(i, "Expecting value")

\* json.loads(s): one value with whitespace around it and nothing else
JsonLoads(s) ==
  Let(ScanOnce(s, SkipWs(s, 1)), LAMBDA v :
    IF ~v.ok THEN v
    ELSE IF SkipWs(s, v.next) <= Len(s) THEN ParseFail(SkipWs(s, v.next), "Extra data")
    ELSE v)

(***************************************************************************)
(* Text literals, str(int), raising and returning.                         *)
(***************************************************************************)
DigitChar(d) == SubSeq("0123456789", d + 1, d + 1)

\* str(n) for n >= 0
RECURSIVE IntToChars(_)
IntToChars(n) ==
  IF n < 10 THEN <<DigitChar(n)>>
  ELSE Append(IntToChars(n \div 10), DigitChar(n % 10))

\* a call's outcome: a returned value, or a raised exception with str(e)
Return(v) == [raised |-> FALSE, exc |-> "", msg |-> <<>>, v |-> v]
Raise(exc, msg) == [raised |-> TRUE, exc |-> exc, msg |-> msg, v |-> PyNone]

(***************************************************************************)
(* Python's operators on the values a decoded response may hold:           *)
(* key in x, x[key], x[0], len(x).                                         *)
(***************************************************************************)
\* key in x, for a str key
PyContains(x, key) ==
  CASE x.t = "dict" -> Return(KeyIndex(x, key) # 0)
    [] x.t = "list" -> Return(\E i \in 1..Len(x.vs) : x.vs[i] = PyStr(key))
    [] x.t = "str"  -> Return(Contains(x.s, key))
    [] OTHER -> Raise("TypeError", Chars("argument of type '") \o Chars(x.t)
                                   \o Chars("' is not iterable"))

\* x[key], for a str key
PyGetKey(x, key) ==
  CASE x.t = "dict" -> IF KeyIndex(x, key) # 0 THEN Return(DictGet(x, key))
                       ELSE Raise("KeyError", Chars("'") \o key \o Chars("'"))
    [] x.t = "list" -> Raise("TypeError", Chars("list indices must be integers or slices, not str"))
    [] x.t = "str"  -> Raise("TypeError", Chars("string indices must be integers"))
    [] OTHER -> Raise("TypeError", Chars("'") \o Chars(x.t)
                                   \o Chars("' object is not subscriptable"))

\* x[0]
PyGetFirst(x) ==
  CASE x.t = "list" -> IF x.vs # <<>> THEN Return(x.vs[1])
                       ELSE Raise("IndexError", Chars("list index out of range"))
    [] x.t = "str"  -> IF x.s # <<>> THEN Return(PyStr(<<x.s[1]>>))
                       ELSE Raise("IndexError", Chars("string index out of range"))
    [] x.t = "dict" -> Raise("KeyError", Chars("0"))
    [] OTHER -> Raise("TypeError", Chars("'") \o Chars(x.t)
                                   \o Chars("' object is not subscriptable"))

\* len(x)
PyLen(x) ==
  CASE x.t = "list" -> Return(Len(x.vs))
    [] x.t = "str"  -> Return(Len(x.s))
    [] x.t = "dict" -> Return(Len(x.ks))
    [] OTHER -> Raise("TypeError", Chars("object of type '") \o Chars(x.t)
                                   \o Chars("' has no len()"))

(***************************************************************************)
(* The environment: documents, base64, the rasterization library and the   *)
(* remote service's answer.                                                *)
(***************************************************************************)
\* The uploaded bytes: a PDF with its pages in document order, page i being
\* identified by i, of which page failAt (if not 0) cannot be rendered; or
\* bytes that are no PDF.
PdfBytes(n, failAt) == [kind |-> "pdf", pages |-> [i \in 1..n |-> i], failAt |-> failAt]
CorruptBytes == [kind |-> "corrupt", pages |-> <<>>, failAt |-> 0]
NoFile == [kind |-> "none", pages |-> <<>>, failAt |-> 0]

\* base64.b64encode(bytes).decode()
B64Encode(bytes) == [enc |-> "base64", payload |-> bytes]
\* a string that base64.b64decode rejects (incorrect padding)
BadBase64 == [enc |-> "invalid", payload |-> NoFile]

\* base64.b64decode(data)
B64Decode(data) ==
  IF data.enc = "base64" THEN Return(data.payload)
  ELSE Raise("binascii.Error", Chars("Incorrect padding"))

\* one page as pdf_to_images encodes it: rendered at 2x zoom, saved as PNG,
\* base64-encoded
PageImage(page) == [page |-> page, zoom |-> 2, format |-> "PNG", enc |-> "base64"]

\* what client.post meets: a response with its status and raw body, or a
\* transport failure (timeout, connection error) with its message
HttpResponse(status_code, text) == [kind |-> "response", status_code |-> status_code, text |-> text]
HttpFailure(msg) == [kind |-> "failure", status_code |-> 0, text |-> msg]

(***************************************************************************)
(* src/anthropic_fix.py                                                    *)
(***************************************************************************)
\* AnthropicDirectClient.__init__
AnthropicDirectClient(key) ==
  [api_key |-> key,
   base_url |-> "https://api.anthropic.com/v1",
   headers |-> [x_api_key |-> key,
                anthropic_version |-> "2023-06-01",
                content_type |-> "application/json"]]

\* create_message with the error message leaving out the response body
create_message_without_body(self, system, messages, http) ==
  LET payload == [model |-> "claude-3-7-sonnet-20250219",
                  system |-> system,
                  messages |-> messages,
                  max_tokens |-> 4000,
                  temperature |-> 0]
  IN  Let(<<[url |-> self.base_url \o "/messages", headers |-> self.headers, json |-> payload]>>,
          LAMBDA sent :
        IF http.kind = "failure"
          THEN [out |-> Raise("httpx.TransportError", http.text), sent |-> sent]
        ELSE IF http.status_code # 200
          THEN [out |-> Raise("Exception",
                              Chars("API request failed with status ")
                                \o IntToChars(http.status_code)),
                sent |-> sent]
        ELSE Let(JsonLoads(http.text), LAMBDA body :
               IF ~body.ok
               THEN [out |-> Raise("JSONDecodeError", Chars(body.msg)), sent |-> sent]
               ELSE [out |-> Return(body.v), sent |-> sent]))

\* AnthropicDirectClient.create_message with the defaults of its signature.
\* Answers the call's outcome and the requests it posted.
create_message(self, system, messages, http) ==
  LET payload == [model |-> "claude-3-7-sonnet-20250219",
                  system |-> system,
                  messages |-> messages,
                  max_tokens |-> 4000,
                  temperature |-> 0]
  IN  Let(<<[url |-> self.base_url \o "/messages", headers |-> self.headers, json |-> payload]>>,
          LAMBDA sent :
        IF http.kind = "failure"
          THEN [out |-> Raise("httpx.TransportError", http.text), sent |-> sent]
        ELSE IF http.status_code # 200
          THEN [out |-> Raise("Exception",
                              Chars("API request failed with status ")
                                \o IntToChars(http.status_code)
                                \o Chars(": ") \o http.text),
                sent |-> sent]
        ELSE Let(JsonLoads(http.text), LAMBDA body :
               IF ~body.ok
               THEN [out |-> Raise("JSONDecodeError", Chars(body.msg)), sent |-> sent]
               ELSE [out |-> Return(body.v), sent |-> sent]))

\* the loop of pdf_to_images: pages page_num+1 .. stop of the document, in
\* order, each appended to images; a page that cannot be rendered raises
RECURSIVE RenderPages(_, _, _, _)
RenderPages(doc, page_num, stop, images) ==
  IF page_num >= stop THEN Return(images)
  ELSE IF doc.failAt = page_num + 1
    THEN Raise("RuntimeError", Chars("cannot render page"))
  ELSE RenderPages(doc, page_num + 1, stop,
                   Append(images, PageImage(doc.pages[page_num + 1])))

\* OpenAndRender with the loop running over every page of the document
OpenAndRender_every_page(doc, limit) ==
  IF doc.kind # "pdf"
  THEN Raise("FileDataError", Chars("Failed to open stream"))
  ELSE RenderPages(doc, 0, Len(doc.pages), <<>>)

\* fitz.open and the loop, inside the try of pdf_to_images
OpenAndRender(doc, limit) ==
  IF doc.kind # "pdf"
  THEN Raise("FileDataError", Chars("Failed to open stream"))
  ELSE RenderPages(doc, 0, Min(Len(doc.pages), limit), <<>>)

\* pdf_to_images(pdf_data, max_pages): the decoding happens before the try,
\* whatever the try catches is raised again wrapped
pdf_to_images(pdf_data, limit) ==
  Let(B64Decode(pdf_data), LAMBDA decoded :
    IF decoded.raised THEN decoded
    ELSE Let(OpenAndRender(decoded.v, limit), LAMBDA inner :
           IF inner.raised
           THEN Raise("Exception", Chars("Error converting PDF to images: ") \o inner.msg)
           ELSE inner))

\* the default of pdf_to_images' max_pages
max_pages == 10

\* an optional str: None, or a string
NoneStr == [none |-> TRUE, s |-> <<>>]
SomeStr(chars) == [none |-> FALSE, s |-> chars]

\* The backquote character. A TLA+ string literal cannot hold one, so the
\* character is named; no other character of a text equals it.
Backquote == "<backquote>"

\* the code fence, three backquotes, and the fence with its json marker
Fence == <<Backquote, Backquote, Backquote>>
FenceJson == Fence \o Chars("json")

\* x.split(sep)[1].split(Fence)[0].strip(), for an x that holds sep
SplitPick(x, sep) ==
  IF x.t # "str"
  THEN Raise("AttributeError", Chars("'") \o Chars(x.t)
                               \o Chars("' object has no attribute 'split'"))
  ELSE Return(Strip(Split(Split(x.s, sep)[2], Fence)[1]))

\* lines 118-123: the JSON text of the reply, taken from its code fence
select_json_str(response_text) ==
  Let(PyContains(response_text, FenceJson), LAMBDA hasJson :
    IF hasJson.raised THEN hasJson
    ELSE IF hasJson.v THEN SplitPick(response_text, FenceJson)
    ELSE Let(PyContains(response_text, Fence), LAMBDA hasFence :
      IF hasFence.raised THEN hasFence
      ELSE IF hasFence.v THEN SplitPick(response_text, Fence)
      ELSE IF response_text.t # "str"
        THEN Raise("AttributeError", Chars("'") \o Chars(response_text.t)
                                     \o Chars("' object has no attribute 'strip'"))
      ELSE Return(Strip(response_text.s))))

\* lines 114-129: the (extracted_data, error) pair for a decoded response, or
\* the exception raised on the way
process_response(response) ==
  LET none == Return([data |-> PyNone, error |-> SomeStr(Chars("No content in response"))])
  IN  Let(PyContains(response, Chars("content")), LAMBDA hasContent :
        IF hasContent.raised THEN hasContent
        ELSE IF ~hasContent.v THEN none
        ELSE Let(PyGetKey(response, Chars("content")), LAMBDA content :
          IF content.raised THEN content
          ELSE Let(PyLen(content.v), LAMBDA length :
            IF length.raised THEN length
            ELSE IF ~(length.v > 0) THEN none
            ELSE Let(PyGetFirst(content.v), LAMBDA first :
              IF first.raised THEN first
              ELSE Let(PyGetKey(first.v, Chars("text")), LAMBDA response_text :
                IF response_text.raised THEN response_text
                ELSE Let(select_json_str(response_text.v), LAMBDA json_str :
                  IF json_str.raised THEN json_str
                  ELSE Let(JsonLoads(json_str.v), LAMBDA extracted_data :
                    IF ~extracted_data.ok
                    THEN Raise("JSONDecodeError", Chars(extracted_data.msg))
                    ELSE Return([data |-> extracted_data.v, error |-> NoneStr]))))))))

\* RequestContent with the text block put before the images
RequestContent_text_first(pdf_images) ==
  <<[type |-> "text",
     text |-> "Extract the purchase order information as specified in your instructions. This is a PDF document converted to images."]>>
  \o [i \in 1..Len(pdf_images) |->
        [type |-> "image",
         source |-> [type |-> "base64", media_type |-> "image/png", data |-> pdf_images[i]]]]

\* lines 85-100: the content list of the user turn
RequestContent(pdf_images) ==
  [i \in 1..Len(pdf_images) |->
     [type |-> "image",
      source |-> [type |-> "base64", media_type |-> "image/png", data |-> pdf_images[i]]]]
  \o <<[type |-> "text",
        text |-> "Extract the purchase order information as specified in your instructions. This is a PDF document converted to images."]>>

\* extract_data_with_direct_client(pdf_base64, api_key, prompt), where http is
\* what the POST meets. Answers the returned pair (raised: an exception left
\* the function), the requests posted and how often pdf_to_images ran.
extract_data_with_direct_client(pdf_base64, key, prompt, http) ==
  LET failed(e, sent) ==
        [raised |-> FALSE,
         pair |-> [data |-> PyNone,
                   error |-> SomeStr(Chars("Error with direct Anthropic API call: ") \o e.msg)],
         sent |-> sent, rendered |-> 1]
  IN  Let(pdf_to_images(pdf_base64, max_pages), LAMBDA pdf_images :
        IF pdf_images.raised THEN failed(pdf_images, <<>>)
        ELSE Let(create_message(AnthropicDirectClient(key), prompt,
                                <<[role |-> "user", content |-> RequestContent(pdf_images.v)]>>,
                                http),
                 LAMBDA posted :
          IF posted.out.raised THEN failed(posted.out, posted.sent)
          ELSE Let(process_response(posted.out.v), LAMBDA processed :
            IF processed.raised THEN failed(processed, posted.sent)
            ELSE [raised |-> FALSE, pair |-> processed.v,
                  sent |-> posted.sent, rendered |-> 1])))

(***************************************************************************)
(* src/test.py: the Streamlit script. One run of the script renders the    *)
(* page from the widgets' values; every widget interaction runs it again.  *)
(***************************************************************************)
\* create_extraction_prompt(pdf_data, mode): the template, and for the
\* advanced mode the additional categories appended to it
create_extraction_prompt(pdf_data, mode) ==
  IF mode = "advanced"
  THEN <<"template: purchase order rules", "additional fields">>
  ELSE <<"template: purchase order rules">>

\* get_pdf_as_base64(file_obj) with disk temporary files on disk before it:
\* a temporary file is created, read back, and unlinked
get_pdf_as_base64(file_obj, disk) ==
  [encoded_string |-> B64Encode(file_obj), disk |-> (disk + 1) - 1]

\* extract_po_data(pdf_base64, api_key, mode)
extract_po_data(pdf_base64, key, mode, http) ==
  extract_data_with_direct_client(pdf_base64, key,
                                  create_extraction_prompt(pdf_base64, mode), http)

\* an element rendered on the page
Element(kind, text, data) == [kind |-> kind, text |-> text, data |-> data]

\* TableGrid without the except branch's st.write
TableGrid_no_fallback(table_name, table_content, fails) ==
  IF table_content.t = "list" /\ Len(table_content.vs) > 0
  THEN IF fails
       THEN <<>>
       ELSE <<Element("dataframe", table_name, table_content)>>
  ELSE <<>>

\* lines 181-186: the grid of one table, or its raw content if the grid fails
TableGrid(table_name, table_content, fails) ==
  IF table_content.t = "list" /\ Len(table_content.vs) > 0
  THEN IF fails
       THEN <<Element("write", table_name, table_content)>>
       ELSE <<Element("dataframe", table_name, table_content)>>
  ELSE <<>>

\* lines 179-186: the elements for the tables from the i-th on; df_fails holds
\* the places of the tables whose DataFrame rendering raises
RECURSIVE TableElements(_, _, _)
TableElements(table_data, i, df_fails) ==
  IF i > Len(table_data.ks) THEN <<>>
  ELSE <<Element("markdown", table_data.ks[i], PyNone)>>
         \o TableGrid(table_data.ks[i], table_data.vs[i], i \in df_fails)
         \o TableElements(table_data, i + 1, df_fails)

\* lines 175-186: the table preview. Answers the elements rendered and the
\* exception that ended it, if any.
table_preview(extracted_data, df_fails) ==
  LET header == <<Element("sub-header", Chars("Table Preview"), PyNone)>>
      done(elements) == [raised |-> FALSE, exc |-> "none", elements |-> elements]
      failed(exc, elements) == [raised |-> TRUE, exc |-> exc, elements |-> elements]
  IN  Let(PyContains(extracted_data, Chars("table_data")), LAMBDA has :
        IF has.raised THEN failed(has.exc, <<>>)
        ELSE IF ~has.v THEN done(<<>>)
        ELSE Let(PyGetKey(extracted_data, Chars("table_data")), LAMBDA table_data :
          IF table_data.raised THEN failed(table_data.exc, <<>>)
          ELSE IF ~Truthy(table_data.v) THEN done(<<>>)
          ELSE IF table_data.v.t # "dict" THEN failed("AttributeError", header)
          ELSE done(header \o TableElements(table_data.v, 1, df_fails))))

\* st.session_state: empty, or holding extracted_data
NoSession == [has |-> FALSE, extracted_data |-> PyNone]
Stored(v) == [has |-> TRUE, extracted_data |-> v]

\* the (extracted_data, error) pair of a run that called extract_po_data
NoResult == [called |-> FALSE, data |-> PyNone, error |-> NoneStr]
Result(pair) == [called |-> TRUE, data |-> pair.data, error |-> pair.error]

\* lines 153-189: what the run renders for the pair extract_po_data returned
show_result(pair, session, df_fails) ==
  LET shown == <<Element("sub-header", Chars("Extracted Purchase Order Data"), PyNone),
                 Element("json", <<>>, pair.data),
                 Element("sub-header", Chars("Download Options"), PyNone),
                 Element("download_button", Chars("purchase_order_data.json"), pair.data)>>
  IN  IF ~pair.error.none /\ pair.error.s # <<>>
        THEN [screen |-> <<Element("error", pair.error.s, PyNone)>>,
              uncaught |-> "none", session |-> session]
      ELSE Let(table_preview(pair.data, df_fails), LAMBDA tables :
        IF tables.raised
        THEN [screen |-> shown \o tables.elements,
              uncaught |-> tables.exc, session |-> session]
        ELSE [screen |-> shown \o tables.elements,
              uncaught |-> "none", session |-> Stored(pair.data)])

\* missing_credential with the test left out
missing_credential_unchecked(key) == FALSE

\* line 140: not api_key
missing_credential(key) == key = ""

\* One run of the script (lines 123-214) with the widgets' values file, key
\* and mode, button telling whether the extraction trigger started it, and
\* disk temporary files on disk before it. Answers what the run leaves
\* behind; a run an exception ended renders the exception in place of the
\* rest of the page. The preview's own temporary file (line 130) is created
\* and never unlinked.
ScriptRun(file, key, mode, button, session, disk, http, df_fails) ==
  LET run(elements, exc, sess, d, res, sent, ran) ==
        [screen |-> IF exc = "none"
                    THEN elements \o <<Element("expander", Chars("About This App"), PyNone)>>
                    ELSE Append(elements, Element("exception", Chars(exc), PyNone)),
         uncaught |-> exc, session |-> sess, disk |-> d,
         result |-> res, sent |-> sent, rendered |-> ran]
  IN  IF file = NoFile
        THEN run(<<>>, "none", session, disk, NoResult, <<>>, 0)
      ELSE Let(get_pdf_as_base64(file, disk + 1), LAMBDA preview :
        Let(<<Element("iframe", <<>>, preview.encoded_string)>>, LAMBDA iframe :
          IF ~button
            THEN run(iframe, "none", session, preview.disk, NoResult, <<>>, 0)
          ELSE IF missing_credential(key)
            THEN run(iframe \o <<Element("error",
                                         Chars("Please enter your Anthropic API key in the sidebar to proceed."),
                                         PyNone)>>,
                     "none", session, preview.disk, NoResult, <<>>, 0)
          ELSE Let(get_pdf_as_base64(file, preview.disk), LAMBDA encoded :
            Let(extract_po_data(encoded.encoded_string, key,
                                IF mode = "Advanced (All Fields)" THEN "advanced" ELSE "basic",
                                http),
                LAMBDA extracted :
              Let(show_result(extracted.pair, session, df_fails), LAMBDA shown :
                run(iframe \o shown.screen, shown.uncaught, shown.session, encoded.disk,
                    Result(extracted.pair), extracted.sent, extracted.rendered))))))

(***************************************************************************)
(* The inputs the specifications range over.                               *)
(***************************************************************************)
\* json.dumps of a str, without the quotes around it
RECURSIVE JsonEscape(_)
JsonEscape(text) ==
  IF Len(text) = 0 THEN <<>>
  ELSE IF Len(text) = 1 THEN
    CASE text[1] = "\"" -> <<"\\", "\"">>
      [] text[1] = "\\" -> <<"\\", "\\">>
      [] text[1] = "\n" -> <<"\\", "n">>
      [] OTHER -> text
  ELSE LET half == Len(text) \div 2
       IN  JsonEscape(SubSeq(text, 1, half)) \o JsonEscape(SubSeq(text, half + 1, Len(text)))

\* the body of a Messages API answer whose first content block holds text
MessageBody(text) ==
  Chars("{\"id\":\"msg_1\",\"content\":[{\"type\":\"text\",\"text\":\"")
    \o JsonEscape(text) \o Chars("\"}],\"role\":\"assistant\"}")

\* reply texts of the model, by the value they hold and how they wrap it
TableReply ==
  FenceJson
    \o Chars("\n{\"table_data\":{\"items\":[{\"sku\":\"x\"}],\"note\":\"n\",\"lines\":[1,2],\"none\":[]}}\n")
    \o Fence

Replies ==
  { Chars("{\"po_number\":\"PO-1\",\"total\":\"$5\"}"),
    TableReply,
    Chars("{\"table_data\":[{\"sku\":\"x\"}]}"),
    Chars("{\"table_data\":null}"),
    Chars("{\"items\":[{\"sku\":\"x\"}]}"),
    Chars("{\"order\":{\"items\":[{\"sku\":\"x\"}]}}"),
    Chars("null"),
    Chars("5"),
    Chars("[\"table_data\"]"),
    Chars("\"table_data\""),
    Chars("I could not read the document."),
    <<>> }

AuthErrorBody ==
  Chars("{\"type\":\"error\",\"error\":{\"type\":\"authentication_error\",\"message\":\"invalid x-api-key\"}}")

\* raw bodies of answers with status 200
Bodies ==
  { MessageBody(r) : r \in Replies } \cup
  { Chars("{}"),
    Chars("{\"content\":[]}"),
    Chars("{\"content\":[{\"type\":\"text\"}]}"),
    Chars("{\"content\":\"text\"}"),
    Chars("[\"content\"]"),
    Chars("null"),
    Chars("<html>Bad Gateway</html>"),
    <<>> }

\* raw bodies of answers with another status
ErrorBodies == { AuthErrorBody, MessageBody(Chars("{\"a\":1}")), <<>> }

\* the statuses other than 200 that the service answers with
ErrorStatusCodes == {201, 401, 500}

HttpOutcomes ==
  { HttpFailure(Chars("timed out")) }
    \cup { HttpResponse(200, b) : b \in Bodies }
    \cup { HttpResponse(c, b) : c \in ErrorStatusCodes, b \in ErrorBodies }

ApiKeys == {"", "sk-ant-valid"}
Modes == {"Basic (Standard Fields)", "Advanced (All Fields)"}

\* documents with every page count up to MaxPages, with no page, the first
\* page or the last page failing to render, and bytes that are no PDF
Documents ==
  { CorruptBytes } \cup
  UNION { { PdfBytes(n, f) : f \in {0, 1, n} \cap 0..n } : n \in 0..MaxPages }

\* the documents extract_data_with_direct_client is called with
ExtractDocuments ==
  { CorruptBytes, PdfBytes(2, 2) } \cup { PdfBytes(n, 0) : n \in 0..MaxPages }

\* the documents a session uploads
UiDocuments == { CorruptBytes, PdfBytes(0, 0), PdfBytes(2, 0) }

\* the outcomes a session's POST meets
UiHttpOutcomes ==
  { HttpFailure(Chars("timed out")),
    HttpResponse(401, AuthErrorBody),
    HttpResponse(200, Chars("{\"content\":[]}")) }
    \cup { HttpResponse(200, MessageBody(r)) : r \in Replies \ {<<>>, Chars("\"table_data\"")} }

\* what a triggered run meets: the outcome of its POST and the places of the
\* tables whose grid rendering fails, which matters for a reply with tables
UiOutcomes ==
  { <<http, {}>> : http \in UiHttpOutcomes }
    \cup { <<HttpResponse(200, MessageBody(TableReply)), {1}>> }

\* the pieces reply texts are assembled from
Pieces ==
  { FenceJson, Fence, <<Backquote>>, Chars("\n{\"a\":1}\n"), Chars("{\"a\":1}"),
    Chars("no fences ") }

\* the texts of exactly k pieces
RECURSIVE TextsOf(_)
TextsOf(k) ==
  IF k = 0 THEN { <<>> }
  ELSE { t \o p : t \in TextsOf(k - 1), p \in Pieces }

ReplyTexts == UNION { TextsOf(k) : k \in 0..MaxPieces }

(***************************************************************************)
(* The session: the widgets' values change, and each change runs the       *)
(* script again.                                                           *)
(***************************************************************************)
NoCall == [fn |-> "none"]
NoHttp == HttpFailure(<<>>)

Init ==
  /\ uploaded_file = NoFile
  /\ api_key = ""
  /\ extraction_mode = "Basic (Standard Fields)"
  /\ screen = <<Element("expander", Chars("About This App"), PyNone)>>
  /\ uncaught = "none"
  /\ pressed = FALSE
  /\ session_state = NoSession
  /\ temp_files = 0
  /\ result = NoResult
  /\ requests = <<>>
  /\ rendered = 0
  /\ call = NoCall
  /\ ret = Return(PyNone)

\* a run of the script with the given widget values
Rerun(file, key, mode, button, http, df_fails) ==
  /\ temp_files < MaxRuns
  /\ \E run \in {ScriptRun(file, key, mode, button, session_state, temp_files, http, df_fails)} :
       /\ uploaded_file' = file
       /\ api_key' = key
       /\ extraction_mode' = mode
       /\ pressed' = button
       /\ screen' = run.screen
       /\ uncaught' = run.uncaught
       /\ session_state' = run.session
       /\ temp_files' = run.disk
       /\ result' = run.result
       /\ requests' = run.sent
       /\ rendered' = run.rendered
       /\ call' = [fn |-> "script", http |-> http, df_fails |-> df_fails]
       /\ ret' = ret

\* the user picks a file in the uploader
Upload(doc) ==
  /\ doc # uploaded_file
  /\ Rerun(doc, api_key, extraction_mode, FALSE, NoHttp, {})

\* the user removes the file from the uploader
ClearFile ==
  /\ uploaded_file # NoFile
  /\ Rerun(NoFile, api_key, extraction_mode, FALSE, NoHttp, {})

\* the user types a credential in the sidebar
EnterApiKey(key) ==
  /\ key # api_key
  /\ Rerun(uploaded_file, key, extraction_mode, FALSE, NoHttp, {})

\* the user picks an extraction mode
SelectMode(mode) ==
  /\ mode # extraction_mode
  /\ Rerun(uploaded_file, api_key, mode, FALSE, NoHttp, {})

\* the user presses the extraction trigger, which exists once a file is loaded
PressExtract(http, df_fails) ==
  /\ uploaded_file # NoFile
  /\ Rerun(uploaded_file, api_key, extraction_mode, TRUE, http, df_fails)

Next ==
  \/ \E doc \in UiDocuments : Upload(doc)
  \/ ClearFile
  \/ \E key \in ApiKeys : EnterApiKey(key)
  \/ \E mode \in Modes : SelectMode(mode)
  \/ \E met \in UiOutcomes : PressExtract(met[1], met[2])

Spec == Init /\ [][Next]_vars

(***************************************************************************)
(* The functions of src/anthropic_fix.py called directly, once, with any   *)
(* input.                                                                  *)
(***************************************************************************)
UiUnchanged ==
  UNCHANGED <<uploaded_file, api_key, extraction_mode, screen, uncaught, pressed,
              session_state, temp_files>>

\* pdf_to_images(pdf_data, m)
CallPdfToImages(pdf_data, m) ==
  /\ call = NoCall
  /\ call' = [fn |-> "pdf_to_images", pdf_data |-> pdf_data, m |-> m]
  /\ ret' = pdf_to_images(pdf_data, m)
  /\ rendered' = 1
  /\ UNCHANGED <<result, requests>>
  /\ UiUnchanged

\* AnthropicDirectClient(key).create_message(system, messages)
CallCreateMessage(key, system, http) ==
  /\ call = NoCall
  /\ \E posted \in {create_message(AnthropicDirectClient(key), system,
                                   <<[role |-> "user", content |-> RequestContent(<<>>)]>>,
                                   http)} :
       /\ call' = [fn |-> "create_message", key |-> key, system |-> system, http |-> http]
       /\ ret' = posted.out
       /\ requests' = posted.sent
  /\ UNCHANGED <<result, rendered>>
  /\ UiUnchanged

\* extract_data_with_direct_client(pdf_base64, key, prompt)
Extract(fn, pdf_base64, key, prompt, http, reply) ==
  /\ call = NoCall
  /\ \E extracted \in {extract_data_with_direct_client(pdf_base64, key, prompt, http)} :
       /\ call' = [fn |-> fn, pdf_data |-> pdf_base64, key |-> key, prompt |-> prompt,
                   http |-> http, reply |-> reply]
       /\ ret' = [raised |-> extracted.raised, exc |-> "", msg |-> <<>>, v |-> PyNone]
       /\ result' = Result(extracted.pair)
       /\ requests' = extracted.sent
       /\ rendered' = extracted.rendered
  /\ UiUnchanged

CallExtract(pdf_base64, key, mode, http) ==
  Extract("extract", pdf_base64, key, create_extraction_prompt(pdf_base64, mode), http, <<>>)

NextCalls ==
  \/ \E d \in Documents, m \in 0..(MaxPages + 1) : CallPdfToImages(B64Encode(d), m)
  \/ \E m \in 0..(MaxPages + 1) : CallPdfToImages(BadBase64, m)
  \/ \E key \in ApiKeys, mode \in {"basic", "advanced"}, http \in HttpOutcomes :
       CallCreateMessage(key, create_extraction_prompt(BadBase64, mode), http)
  \/ \E d \in ExtractDocuments, key \in ApiKeys, mode \in {"basic", "advanced"}, http \in HttpOutcomes :
       CallExtract(B64Encode(d), key, mode, http)
  \/ \E key \in ApiKeys, mode \in {"basic", "advanced"}, http \in HttpOutcomes :
       CallExtract(BadBase64, key, mode, http)

SpecCalls == Init /\ [][NextCalls]_vars

(***************************************************************************)
(* The response parser on every reply text assembled from Pieces, reached  *)
(* through extract_data_with_direct_client with a one-page document and a  *)
(* successful answer holding the reply.                                    *)
(***************************************************************************)
ParseReply(reply) ==
  Extract("parse_reply", B64Encode(PdfBytes(1, 0)), "sk-ant-valid",
          create_extraction_prompt(BadBase64, "basic"),
          HttpResponse(200, MessageBody(reply)), reply)

NextParser == \E reply \in ReplyTexts : ParseReply(reply)

SpecParser == Init /\ [][NextParser]_vars

\* no parse of a text the specifications explore leaves the modelled part of
\* json.loads
ParserInDomain == ~Contains(result.error.s, Chars("unmodelled"))

(***************************************************************************)
(* What the runs and the calls leave behind, as the claims speak of it.    *)
(***************************************************************************)
\* the elements of the given kinds on the screen
Shown(kinds) == { i \in 1..Len(screen) : screen[i].kind \in kinds }

\* the last run was started by the extraction trigger with a credential
ExtractionRun == call.fn = "script" /\ pressed /\ uploaded_file # NoFile /\ api_key # ""

\* the bytes a direct call was given, decoded
CalledDocument == B64Decode(call.pdf_data).v

\* the image blocks of a posted request
ImageBlocks(request) ==
  LET content == request.json.messages[1].content
  IN  { i \in 1..Len(content) : content[i].type = "image" }

(***************************************************************************)
(* C1                                                                      *)
(***************************************************************************)
\* C1: for every input, extract_data_with_direct_client does not raise and
\* returns either (parsed value, null error) or (null, non-empty error
\* string); never both components null and never both non-null.
C1_ResultOrError ==
  call.fn = "extract" =>
    /\ ~ret.raised
    /\ result.called
    /\ \/ result.data # PyNone /\ result.error.none
       \/ result.data = PyNone /\ ~result.error.none /\ result.error.s # <<>>

(***************************************************************************)
(* C2                                                                      *)
(***************************************************************************)
\* C2: a run the extraction trigger started with a credential present ends
\* in the result state (JSON and download rendered, no error message) or in
\* the error state (one inline error message, nothing of a result rendered),
\* and no exception leaves the run uncaught.
C2_ResultStateOrErrorState ==
  ExtractionRun =>
    /\ uncaught = "none"
    /\ \/ /\ Shown({"json"}) # {}
          /\ Shown({"download_button"}) # {}
          /\ Shown({"error", "exception"}) = {}
       \/ /\ Cardinality(Shown({"error"})) = 1
          /\ Shown({"json", "download_button", "dataframe", "write", "exception"}) = {}

(***************************************************************************)
(* C9                                                                      *)
(***************************************************************************)
\* C9: at the end of every run of the script, every temporary file the run
\* created for the document has been deleted: no copy of the document is
\* on disk, however many runs there were.
C9_NoDocumentOnDisk == temp_files = 0

(***************************************************************************)
(* C4                                                                      *)
(***************************************************************************)
\* C4: a run the trigger started with an empty credential shows an inline
\* error message, rasterizes nothing and posts nothing; a run that
\* rasterizes or posts has a file loaded, the trigger pressed and a
\* non-empty credential.
C4_NoCredentialNoCall ==
  call.fn = "script" =>
    /\ (pressed /\ api_key = "") =>
         /\ Shown({"error"}) # {}
         /\ rendered = 0
         /\ requests = <<>>
         /\ ~result.called
    /\ (rendered > 0 \/ requests # <<>>) =>
         uploaded_file # NoFile /\ pressed /\ api_key # ""

\* the trigger was pressed with a document loaded and no credential, after
\* an earlier run of the session had stored a result
C4_Witness ==
  /\ call.fn = "script" /\ pressed /\ api_key = ""
  /\ uploaded_file = PdfBytes(2, 0)
  /\ session_state.has
  /\ Shown({"error"}) # {}

(***************************************************************************)
(* C3                                                                      *)
(***************************************************************************)
\* C3: for a PDF of n pages and a maximum m, pdf_to_images returns exactly
\* min(n, m) images, the i-th the rendering of page i; it fails only on a
\* page among the first min(n, m), the pages beyond m are not rendered; and
\* no request posted holds more than max_pages image blocks.
C3_PageLimit ==
  /\ (call.fn = "pdf_to_images" /\ call.pdf_data.enc = "base64"
        /\ CalledDocument.kind = "pdf") =>
       LET n == Len(CalledDocument.pages)
           k == Min(n, call.m)
       IN  /\ ret.raised <=> CalledDocument.failAt \in 1..k
           /\ ~ret.raised =>
                /\ Len(ret.v) = k
                /\ \A i \in 1..k : ret.v[i] = PageImage(CalledDocument.pages[i])
  /\ call.fn = "extract" =>
       \A r \in 1..Len(requests) : Cardinality(ImageBlocks(requests[r])) <= max_pages

\* a document of more pages than the default maximum, whose last page cannot
\* be rendered, gave max_pages images
C3_Witness ==
  /\ call.fn = "pdf_to_images" /\ call.m = max_pages
  /\ call.pdf_data.enc = "base64" /\ CalledDocument.kind = "pdf"
  /\ Len(CalledDocument.pages) > max_pages
  /\ CalledDocument.failAt = Len(CalledDocument.pages)
  /\ ~ret.raised /\ Len(ret.v) = max_pages

(***************************************************************************)
(* C6                                                                      *)
(***************************************************************************)
\* C6: on a status other than 200, the only status the client accepts,
\* create_message fails with an error that carries the status code and the
\* raw response body verbatim; on status 200 it returns the parsed body as
\* it is; and a posted request answered with status 401 makes
\* extract_data_with_direct_client return (null, error string) with "401"
\* in the string.
C6_StatusAndBody ==
  /\ (call.fn = "create_message" /\ call.http.kind = "response") =>
       IF call.http.status_code # 200
       THEN /\ ret.raised
            /\ ret.msg = Chars("API request failed with status ")
                           \o IntToChars(call.http.status_code)
                           \o Chars(": ") \o call.http.text
       ELSE /\ JsonLoads(call.http.text).ok =>
                 ~ret.raised /\ ret.v = JsonLoads(call.http.text).v
            /\ call.http.text = Chars("{\"content\":[]}") =>
                 ~ret.raised /\ ret.v = PyDict(<<Chars("content")>>, <<PyList(<<>>)>>)
  /\ (call.fn = "extract" /\ requests # <<>> /\ call.http.kind = "response"
        /\ call.http.status_code = 401) =>
       /\ result.data = PyNone
       /\ ~result.error.none
       /\ Contains(result.error.s, Chars("401"))
       /\ Contains(result.error.s, call.http.text)

\* a posted request was answered with status 401 and a body, and the pair
\* returned holds the error
C6_Witness ==
  /\ call.fn = "extract" /\ requests # <<>>
  /\ call.http = HttpResponse(401, AuthErrorBody)
  /\ result.data = PyNone
  /\ Contains(result.error.s, Chars("status 401: ") \o AuthErrorBody)

(***************************************************************************)
(* C7                                                                      *)
(***************************************************************************)
\* C7: for a PDF of no pages, and for bytes that are no PDF, pdf_to_images
\* fails with the wrapped error; it never returns an empty list of images,
\* and no request without an image is posted.
C7_NoEmptyImageList ==
  /\ (call.fn = "pdf_to_images" /\ call.pdf_data.enc = "base64"
        /\ (CalledDocument.kind # "pdf" \/ Len(CalledDocument.pages) = 0)) =>
       /\ ret.raised
       /\ StartsAt(ret.msg, Chars("Error converting PDF to images: "), 1)
  /\ (call.fn = "pdf_to_images" /\ ~ret.raised) => ret.v # <<>>
  /\ call.fn = "extract" =>
       \A r \in 1..Len(requests) : ImageBlocks(requests[r]) # {}

(***************************************************************************)
(* C8                                                                      *)
(***************************************************************************)
\* C8: a request built from the k images of the rasterizer has one turn, of
\* the user, whose content holds k+1 blocks: the k images in the
\* rasterizer's order, each a PNG image block, then the one text block with
\* the static directive, the same for every extraction mode.
C8_RequestShape ==
  (call.fn = "extract" /\ requests # <<>>) =>
    LET k == Min(Len(CalledDocument.pages), max_pages)
        messages == requests[1].json.messages
        content == messages[1].content
    IN  /\ Len(requests) = 1
        /\ Len(messages) = 1
        /\ messages[1].role = "user"
        /\ Len(content) = k + 1
        /\ \A i \in 1..k :
             /\ content[i].type = "image"
             /\ content[i].source.type = "base64"
             /\ content[i].source.media_type = "image/png"
             /\ content[i].source.data = PageImage(CalledDocument.pages[i])
        /\ content[k + 1] =
             [type |-> "text",
              text |-> "Extract the purchase order information as specified in your instructions. This is a PDF document converted to images."]

\* a request for a document of three pages in the advanced mode
C8_Witness ==
  /\ call.fn = "extract" /\ requests # <<>>
  /\ call.prompt = create_extraction_prompt(call.pdf_data, "advanced")
  /\ Len(CalledDocument.pages) = 3
  /\ Len(requests[1].json.messages[1].content) = 4

(***************************************************************************)
(* C5                                                                      *)
(***************************************************************************)
\* the content of text from index from to the next fence, to the end of the
\* text if there is none, trimmed
UpToNextFence(text, from) ==
  LET close == FindFrom(text, Fence, from)
  IN  Strip(SubSeq(text, from, IF close = 0 THEN Len(text) ELSE close - 1))

\* the JSON substring of a reply text by the three ordered cases
FencedContent(text) ==
  IF Contains(text, FenceJson)
    THEN UpToNextFence(text, FindFrom(text, FenceJson, 1) + Len(FenceJson))
  ELSE IF Contains(text, Fence)
    THEN UpToNextFence(text, FindFrom(text, Fence, 1) + Len(Fence))
  ELSE Strip(text)

\* C5: for every reply text the parser selects, in this order, the content
\* between the fence opened with the json marker and the next closing
\* fence, else the content between the first pair of fences, else the whole
\* trimmed text, and parses the selection as JSON: the value with no error
\* if it parses, null with a parse-error string if it does not. The fenced
\* {"a":1} yields {"a": 1}; an unfenced text that is no JSON yields null
\* and an error.
C5_FenceSelection ==
  call.fn = "parse_reply" =>
    /\ LET parsed == JsonLoads(FencedContent(call.reply))
       IN  IF parsed.ok
           THEN result.data = parsed.v /\ result.error.none
           ELSE result.data = PyNone /\ ~result.error.none /\ result.error.s # <<>>
    /\ call.reply = FenceJson \o Chars("\n{\"a\":1}\n") \o Fence =>
         result.data = PyDict(<<Chars("a")>>, <<PyInt(1)>>) /\ result.error.none
    /\ call.reply = Chars("no fences ") \o Chars("{\"a\":1}") =>
         result.data = PyNone /\ ~result.error.none

(***************************************************************************)
(* C10                                                                     *)
(***************************************************************************)
\* the run ended with a result: extract_po_data returned no error
SuccessfulExtraction == ExtractionRun /\ result.called /\ result.error.none

\* the grid, or the raw content, of the table named name is on the screen
GridOrRaw(name, content) ==
  \E i \in Shown({"dataframe", "write"}) : screen[i].text = name /\ screen[i].data = content

\* the non-empty lists among the values of a mapping are on the screen,
\* each as a grid or raw
ListsPreviewed(mapping) ==
  \A i \in 1..Len(mapping.ks) :
    (mapping.vs[i].t = "list" /\ mapping.vs[i].vs # <<>>) =>
      GridOrRaw(mapping.ks[i], mapping.vs[i])

\* C10 as stated: after a successful extraction, for each top-level key of
\* the result that holds a list, or a mapping to lists, a grid rendering of
\* it is attempted, with the raw content shown if the rendering fails, and
\* the run does not fail.
C10_TopLevelKeysPreviewed ==
  (SuccessfulExtraction /\ result.data.t = "dict") =>
    /\ uncaught = "none"
    /\ ListsPreviewed(result.data)
    /\ \A i \in 1..Len(result.data.ks) :
         result.data.vs[i].t = "dict" => ListsPreviewed(result.data.vs[i])

\* C10 amended: after a successful extraction whose result is a mapping
\* with a non-empty mapping under the key table_data, for each key of that
\* table_data mapping whose value is a non-empty list a grid rendering is
\* attempted, and if it fails that key's content is shown raw instead and
\* the run does not fail; the other keys of table_data get no grid, and a
\* result without table_data gets no table preview.
C10_TableDataPreviewed ==
  (SuccessfulExtraction /\ result.data.t = "dict") =>
    LET at == KeyIndex(result.data, Chars("table_data"))
        table_data == result.data.vs[at]
        grids == { i \in 1..Len(table_data.ks) :
                     table_data.vs[i].t = "list" /\ table_data.vs[i].vs # <<>> }
    IN  /\ at = 0 => uncaught = "none" /\ Shown({"dataframe", "write"}) = {}
        /\ (at # 0 /\ table_data.t = "dict" /\ table_data.ks # <<>>) =>
             /\ uncaught = "none"
             /\ Cardinality(Shown({"dataframe", "write"})) = Cardinality(grids)
             /\ \A i \in grids :
                  \E e \in Shown({IF i \in call.df_fails THEN "write" ELSE "dataframe"}) :
                    /\ screen[e].text = table_data.ks[i]
                    /\ screen[e].data = table_data.vs[i]
             /\ session_state = Stored(result.data)

\* a result with two tables: the grid of the first failed and its content
\* is shown raw, the grid of the other is shown
C10_Witness ==
  /\ SuccessfulExtraction
  /\ call.df_fails = {1}
  /\ result.data.t = "dict"
  /\ Shown({"write"}) # {}
  /\ Shown({"dataframe"}) # {}
  /\ uncaught = "none"

====
